---------------------------- MODULE Spec2Model ----------------------------
(***************************************************************************)
(* Invoice-Creator: the InvoiceCreator component of src/app/page.tsx as a  *)
(* state machine.  The React state (ten useState slots), the localStorage  *)
(* record under STORAGE_KEY, the mount effects (load, then save), the UI   *)
(* event handlers and the FileReader completions are modelled; markup is   *)
(* modelled only as far as it shows derived totals or gates a handler.     *)
(*                                                                         *)
(* Money is counted in hundredths (10.50 is 1050); quantities are          *)
(* integers.  JS null is the reserved string null.                         *)
(***************************************************************************)
EXTENDS Integers, Sequences, FiniteSets

(* ------------------------------ bounds ------------------------------- *)

\* UI events handled after the mount.
MaxEvents == 3
\* Advances of the millisecond clock read by Date.now().
MaxTicks == 1
\* localStorage.setItem calls that throw.
MaxWriteFailures == 1
\* First reading of the millisecond clock.
ClockStart == 1700
\* UI events of the sessions that only edit the item list / the signature.
MaxItemEvents == 4
MaxSignatureEvents == 4

(* ----------------------------- constants ----------------------------- *)

null == "<null>"

STORAGE_KEY == "invoice-creator-data"

PAPER_COLORS ==
  << [name |-> "Cream", value |-> "oklch(0.96 0.01 85)"],
     [name |-> "White", value |-> "oklch(0.99 0 0)"],
     [name |-> "Mint",  value |-> "oklch(0.96 0.02 160)"],
     [name |-> "Peach", value |-> "oklch(0.96 0.02 40)"],
     [name |-> "Blue",  value |-> "oklch(0.96 0.02 240)"] >>

\* new Date().toISOString().split("T")[0] on the day of the session.
Today == "2026-11-01"

(* --------------------------- pure helpers ---------------------------- *)

Digit(d) ==
  CASE d = 0 -> "0" [] d = 1 -> "1" [] d = 2 -> "2" [] d = 3 -> "3"
    [] d = 4 -> "4" [] d = 5 -> "5" [] d = 6 -> "6" [] d = 7 -> "7"
    [] d = 8 -> "8" [] d = 9 -> "9"

\* Number.prototype.toString() of a non-negative integer.
RECURSIVE toString(_)
toString(n) ==
  IF n < 10 THEN Digit(n) ELSE toString(n \div 10) \o Digit(n % 10)

\* Number.prototype.toFixed(2) of a non-negative amount.
toFixed2(c) ==
  toString(c \div 100) \o "." \o Digit((c % 100) \div 10) \o Digit(c % 10)

\* JS truthiness of a string | null.
Truthy(v) == v /= null /\ v /= ""

defaultData ==
  [ paperColor    |-> PAPER_COLORS[1].value,
    signature     |-> null,
    invoiceNumber |-> "INV-001",
    date          |-> Today,
    fromName      |-> "",
    fromAddress   |-> "",
    toName        |-> "",
    toAddress     |-> "",
    items         |-> << [id |-> "1", description |-> "", quantity |-> 1, price |-> 0] >>,
    note          |-> "" ]

(* ------------------------ JSON and localStorage ---------------------- *)

\* JSON text is kept as its token tree.  A string value, null and a number
\* are different tokens; a number is written in decimal notation (whole
\* part, hundredths).
JStr(s) == <<"string", s>>
JNull == <<"null">>
\* Faulty variant: the number is written without its fraction.
JNum_DropsFraction(c) == <<"number", c \div 100, 0>>

JNum(c) == <<"number", c \div 100, c % 100>>

JStrOrNull(v) == IF v = null THEN JNull ELSE JStr(v)

JSONstringify(data) ==
  << "json",
     [ paperColor    |-> JStr(data.paperColor),
       signature     |-> JStrOrNull(data.signature),
       invoiceNumber |-> JStr(data.invoiceNumber),
       date          |-> JStr(data.date),
       fromName      |-> JStr(data.fromName),
       fromAddress   |-> JStr(data.fromAddress),
       toName        |-> JStr(data.toName),
       toAddress     |-> JStr(data.toAddress),
       items         |-> [ i \in 1..Len(data.items) |->
                             [ id          |-> JStr(data.items[i].id),
                               description |-> JStr(data.items[i].description),
                               quantity    |-> JNum(data.items[i].quantity * 100),
                               price       |-> JNum(data.items[i].price) ] ],
       note          |-> JStr(data.note) ] >>

JValue(tok) ==
  CASE tok[1] = "null"   -> null
    [] tok[1] = "string" -> tok[2]
    [] tok[1] = "number" -> tok[2] * 100 + tok[3]

\* JSON.parse: a SyntaxError on text that is not JSON, else the value.
JSONparse(text) ==
  IF text[1] /= "json"
    THEN [threw |-> TRUE]
    ELSE [ threw |-> FALSE,
           value |->
             [ paperColor    |-> JValue(text[2].paperColor),
               signature     |-> JValue(text[2].signature),
               invoiceNumber |-> JValue(text[2].invoiceNumber),
               date          |-> JValue(text[2].date),
               fromName      |-> JValue(text[2].fromName),
               fromAddress   |-> JValue(text[2].fromAddress),
               toName        |-> JValue(text[2].toName),
               toAddress     |-> JValue(text[2].toAddress),
               items         |-> [ i \in 1..Len(text[2].items) |->
                                     [ id          |-> JValue(text[2].items[i].id),
                                       description |-> JValue(text[2].items[i].description),
                                       quantity    |-> JValue(text[2].items[i].quantity) \div 100,
                                       price       |-> JValue(text[2].items[i].price) ] ],
               note          |-> JValue(text[2].note) ] ]

\* The record under STORAGE_KEY: no item, or a text (raw characters that
\* are not JSON, or JSON).
NoItem == <<"absent">>
CorruptText == <<"raw", "{\"paperColor\":">>

\* InvoiceData | null, as a sequence of at most one InvoiceData.
None == << >>
Some(d) == << d >>

\* Faulty variant: the catch block removes the record.
saveToLocalStorage_ClearsOnFailure(ls, data, setItemThrows) ==
  IF setItemThrows THEN NoItem ELSE JSONstringify(data)

saveToLocalStorage(ls, data, setItemThrows) ==
  IF setItemThrows THEN ls ELSE JSONstringify(data)

\* Faulty variant: the catch block returns a blank draft instead of null.
loadFromLocalStorage_CatchReturnsBlank(ls) ==
  IF ls = NoItem \/ ls = <<"raw", "">>
    THEN None
    ELSE IF JSONparse(ls).threw
      THEN Some([defaultData EXCEPT !.paperColor = "", !.invoiceNumber = "", !.date = ""])
      ELSE Some(JSONparse(ls).value)

loadFromLocalStorage(ls) ==
  IF ls = NoItem \/ ls = <<"raw", "">>
    THEN None
    ELSE IF JSONparse(ls).threw THEN None ELSE Some(JSONparse(ls).value)


(* ------------------------------- state ------------------------------- *)

VARIABLES
  paperColor, signature, invoiceNumber, date, fromName, fromAddress,
  toName, toAddress, items, note,  \* the ten useState slots
  localStorage,   \* the text stored under STORAGE_KEY, or NoItem
  pending,        \* state updates queued by the load effect, not yet rendered
  view,           \* what the last render put on the page
  readers,        \* the FileReaders created so far, in creation order
  pc,             \* position of the component: mountLoad, mountSave, mountLoad2,
                  \* mountSave2 (the effects run again), render, idle
  now,            \* the last reading of Date.now()
  events, writeFailures,   \* counters for the bounds
  preMount,       \* history: localStorage as it was before the mount, kept
                  \* until the first UI event
  lastWrite       \* history: outcome of the last saveToLocalStorage call

state == << paperColor, signature, invoiceNumber, date, fromName, fromAddress,
            toName, toAddress, items, note >>

vars == << paperColor, signature, invoiceNumber, date, fromName, fromAddress,
           toName, toAddress, items, note, localStorage, pending, view,
           readers, pc, now, events, writeFailures,
           preMount, lastWrite >>

\* The object the save effect builds from the current state.
currentData ==
  [ paperColor    |-> paperColor,
    signature     |-> signature,
    invoiceNumber |-> invoiceNumber,
    date          |-> date,
    fromName      |-> fromName,
    fromAddress   |-> fromAddress,
    toName        |-> toName,
    toAddress     |-> toAddress,
    items         |-> items,
    note          |-> note ]

(* ------------------------------ rendering ---------------------------- *)

\* items.reduce((sum, item) => sum + item.quantity * item.price, 0)
RECURSIVE reduce(_, _)
reduce(sum, its) ==
  IF its = << >> THEN sum
  ELSE reduce(sum + Head(its).quantity * Head(its).price, Tail(its))

subtotal(its) == reduce(0, its)

\* The derived part of the markup: row totals, SUBTOTAL, TOTAL, and whether
\* the remove buttons are disabled.
Render(its) ==
  [ rows           |-> [ i \in 1..Len(its) |-> toFixed2(its[i].quantity * its[i].price) ],
    subtotal       |-> toFixed2(subtotal(its)),
    total          |-> toFixed2(subtotal(its)),
    removeDisabled |-> Len(its) = 1 ]

(* ------------------------------- mount ------------------------------- *)

\* A persisted draft of an earlier session (ids come from earlier clock
\* readings).
Snapshot ==
  [ paperColor    |-> PAPER_COLORS[3].value,
    signature     |-> null,
    invoiceNumber |-> "INV-002",
    date          |-> "2026-10-15",
    fromName      |-> "Acme",
    fromAddress   |-> "1 Main St",
    toName        |-> "Bob",
    toAddress     |-> "2 Side St",
    items         |-> << [id |-> "1", description |-> "", quantity |-> 1, price |-> 0],
                         [id |-> toString(ClockStart - 1), description |-> "Widget",
                          quantity |-> 3, price |-> 1050] >>,
    note          |-> "Thanks" ]

InitialStorage == { NoItem, CorruptText, JSONstringify(Snapshot) }

Init ==
  /\ paperColor = defaultData.paperColor
  /\ signature = defaultData.signature
  /\ invoiceNumber = defaultData.invoiceNumber
  /\ date = defaultData.date
  /\ fromName = defaultData.fromName
  /\ fromAddress = defaultData.fromAddress
  /\ toName = defaultData.toName
  /\ toAddress = defaultData.toAddress
  /\ items = defaultData.items
  /\ note = defaultData.note
  /\ localStorage \in InitialStorage
  /\ pending = << >>
  /\ view = Render(defaultData.items)
  /\ readers = << >>
  /\ pc = "mountLoad"
  /\ now = ClockStart
  /\ events = 0
  /\ writeFailures = 0
  /\ preMount = localStorage
  /\ lastWrite = "none"

\* savedData.note || ""
OrEmpty(v) == IF Truthy(v) THEN v ELSE ""

\* The load effect: the ten setters are called with the saved values; React
\* queues them until the effects of this commit have run.
LoadEffect ==
  /\ pc \in {"mountLoad", "mountLoad2"}
  /\ LET savedData == loadFromLocalStorage(localStorage) IN
       pending' = IF savedData /= None
                    THEN Append(pending, [savedData[1] EXCEPT !.note = OrEmpty(@)])
                    ELSE pending
  /\ pc' = IF pc = "mountLoad" THEN "mountSave" ELSE "mountSave2"
  /\ UNCHANGED << state, localStorage, view, readers, now, events,
                  writeFailures, preMount, lastWrite >>

\* The body of the save effect for the rendered state d: setItem stores the
\* text or throws (quota, storage disabled), and the throw is caught.
Save(d) ==
  \E setItemThrows \in BOOLEAN :
    /\ setItemThrows => writeFailures < MaxWriteFailures
    /\ localStorage' = saveToLocalStorage(localStorage, d, setItemThrows)
    /\ writeFailures' = IF setItemThrows THEN writeFailures + 1 ELSE writeFailures
    /\ lastWrite' = IF setItemThrows THEN "failed" ELSE "ok"

\* What follows the effects of the first commit: the render of the queued
\* updates, or nothing when no setter was called.
AfterEffects == IF pending /= << >> THEN "render" ELSE "idle"

\* The save effect of the first commit: it writes the state of the first
\* render, the defaults.  A development build with strict mode then runs both
\* mount effects a second time, before any render.
SaveEffect ==
  /\ pc \in {"mountSave", "mountSave2"}
  /\ Save(currentData)
  /\ \E strictMode \in BOOLEAN :
       pc' = IF pc = "mountSave" /\ strictMode THEN "mountLoad2" ELSE AfterEffects
  /\ UNCHANGED << state, pending, view, readers, now, events, preMount >>

\* All ten slots take the values of d.
SetState(d) ==
  /\ paperColor' = d.paperColor
  /\ signature' = d.signature
  /\ invoiceNumber' = d.invoiceNumber
  /\ date' = d.date
  /\ fromName' = d.fromName
  /\ fromAddress' = d.fromAddress
  /\ toName' = d.toName
  /\ toAddress' = d.toAddress
  /\ items' = d.items
  /\ note' = d.note

\* The render of the queued updates: they apply in call order, so the last
\* load effect's values stand; items is a new array, so the save effect runs
\* after the render.
RenderPending ==
  /\ pc = "render"
  /\ SetState(pending[Len(pending)])
  /\ view' = Render(pending[Len(pending)].items)
  /\ Save(pending[Len(pending)])
  /\ pending' = << >>
  /\ pc' = "idle"
  /\ UNCHANGED << readers, now, events, preMount >>

(* ---------------------------- UI handlers ---------------------------- *)

InvoiceNumbers == { "INV-001", "INV-002" }
Dates == { Today, "2026-10-15" }
FromNames == { "", "Acme" }
FromAddresses == { "", "1 Main St" }
ToNames == { "", "Bob" }
ToAddresses == { "", "2 Side St" }
Notes == { "", "Thanks" }
Descriptions == { "", "Widget" }
QuantityInputs == { "", "3" }
PriceInputs == { "", "10.50" }
Files == { "a.png", "b.png" }

\* The browser handles one event at a time, after the previous one's
\* render and effects.
Idle(max) == pc = "idle" /\ events < max

Forgotten == <<"forgotten">>

Handled == events' = events + 1 /\ preMount' = Forgotten

\* Faulty variant: the dependency list of the save effect lacks items.
Commit_DepsOmitItems(d, changed) ==
  /\ SetState(d)
  /\ view' = IF changed THEN Render(d.items) ELSE view
  /\ IF changed /\ d.items = items
       THEN Save(d)
       ELSE UNCHANGED << localStorage, writeFailures, lastWrite >>
  /\ pc' = "idle"

\* Faulty variant: the totals are computed once and kept.
Commit_StaleTotals(d, changed) ==
  /\ SetState(d)
  /\ view' = view
  /\ IF changed THEN Save(d) ELSE UNCHANGED << localStorage, writeFailures, lastWrite >>
  /\ pc' = "idle"

\* The setter calls of a handler, and React's answer: when a slot differs
\* (Object.is) the component renders again and the save effect runs, all
\* before the next event.
Commit(d, changed) ==
  /\ SetState(d)
  /\ view' = IF changed THEN Render(d.items) ELSE view
  /\ IF changed THEN Save(d) ELSE UNCHANGED << localStorage, writeFailures, lastWrite >>
  /\ pc' = "idle"

SetPaperColor(max) ==
  /\ Idle(max)
  /\ \E i \in 1..Len(PAPER_COLORS) :
       Commit([currentData EXCEPT !.paperColor = PAPER_COLORS[i].value],
              PAPER_COLORS[i].value /= paperColor)
  /\ Handled
  /\ UNCHANGED << pending, readers, now >>

SetInvoiceNumber(max) ==
  /\ Idle(max)
  /\ \E v \in InvoiceNumbers :
       Commit([currentData EXCEPT !.invoiceNumber = v], v /= invoiceNumber)
  /\ Handled
  /\ UNCHANGED << pending, readers, now >>

SetDate(max) ==
  /\ Idle(max)
  /\ \E v \in Dates : Commit([currentData EXCEPT !.date = v], v /= date)
  /\ Handled
  /\ UNCHANGED << pending, readers, now >>

SetFromName(max) ==
  /\ Idle(max)
  /\ \E v \in FromNames : Commit([currentData EXCEPT !.fromName = v], v /= fromName)
  /\ Handled
  /\ UNCHANGED << pending, readers, now >>

SetFromAddress(max) ==
  /\ Idle(max)
  /\ \E v \in FromAddresses :
       Commit([currentData EXCEPT !.fromAddress = v], v /= fromAddress)
  /\ Handled
  /\ UNCHANGED << pending, readers, now >>

SetToName(max) ==
  /\ Idle(max)
  /\ \E v \in ToNames : Commit([currentData EXCEPT !.toName = v], v /= toName)
  /\ Handled
  /\ UNCHANGED << pending, readers, now >>

SetToAddress(max) ==
  /\ Idle(max)
  /\ \E v \in ToAddresses :
       Commit([currentData EXCEPT !.toAddress = v], v /= toAddress)
  /\ Handled
  /\ UNCHANGED << pending, readers, now >>

SetNote(max) ==
  /\ Idle(max)
  /\ \E v \in Notes : Commit([currentData EXCEPT !.note = v], v /= note)
  /\ Handled
  /\ UNCHANGED << pending, readers, now >>

\* Date.now() reads the millisecond clock: the last reading again, or a
\* later one.
\* [...items, { id: Date.now().toString(), description: "", quantity: 1, price: 0 }]
addItem(its, clock) ==
  Append(its, [id |-> toString(clock), description |-> "", quantity |-> 1, price |-> 0])

AddItem(max) ==
  /\ Idle(max)
  /\ \E t \in now..(now + 1) :
       /\ t <= ClockStart + MaxTicks
       /\ now' = t
       /\ Commit([currentData EXCEPT !.items = addItem(items, t)], TRUE)
  /\ Handled
  /\ UNCHANGED << pending, readers >>

\* items.filter((item) => item.id !== id)
RECURSIVE filter(_, _)
filter(its, id) ==
  IF its = << >> THEN << >>
  ELSE IF Head(its).id /= id THEN << Head(its) >> \o filter(Tail(its), id)
  ELSE filter(Tail(its), id)

\* The list removeItem leaves; with one item it calls no setter.
removeItem(its, id) == IF Len(its) > 1 THEN filter(its, id) ELSE its

\* The remove button of a rendered row.
RemoveItem(max) ==
  /\ Idle(max)
  /\ \E i \in 1..Len(items) :
       Commit([currentData EXCEPT !.items = removeItem(items, items[i].id)],
              Len(items) > 1)
  /\ Handled
  /\ UNCHANGED << pending, readers, now >>

\* items.map((item) => (item.id === id ? { ...item, [field]: value } : item))
updateItem(its, id, field, value) ==
  [ i \in 1..Len(its) |->
      IF its[i].id = id THEN [its[i] EXCEPT ![field] = value] ELSE its[i] ]

\* Number.parseInt / Number.parseFloat of the text of a number input (the
\* float in hundredths): NaN for text that starts with no number.
parseInt(raw) ==
  CASE raw = "3" -> [nan |-> FALSE, n |-> 3]
    [] raw = "0" -> [nan |-> FALSE, n |-> 0]
    [] OTHER     -> [nan |-> TRUE, n |-> 0]

parseFloat(raw) ==
  CASE raw = "10.50" -> [nan |-> FALSE, n |-> 1050]
    [] raw = "0"     -> [nan |-> FALSE, n |-> 0]
    [] OTHER         -> [nan |-> TRUE, n |-> 0]

\* number || fallback: NaN and 0 are falsy.
OrNumber(r, fallback) == IF r.nan \/ r.n = 0 THEN fallback ELSE r.n

\* The three inputs of a rendered row.
UpdateItem(max) ==
  /\ Idle(max)
  /\ \E i \in 1..Len(items) :
       \/ \E v \in Descriptions :
            Commit([currentData EXCEPT
                      !.items = updateItem(items, items[i].id, "description", v)], TRUE)
       \/ \E raw \in QuantityInputs :
            Commit([currentData EXCEPT
                      !.items = updateItem(items, items[i].id, "quantity",
                                           OrNumber(parseInt(raw), 1))], TRUE)
       \/ \E raw \in PriceInputs :
            Commit([currentData EXCEPT
                      !.items = updateItem(items, items[i].id, "price",
                                           OrNumber(parseFloat(raw), 0))], TRUE)
  /\ Handled
  /\ UNCHANGED << pending, readers, now >>

(* ----------------------------- signature ----------------------------- *)

\* FileReader.readyState.
LOADING == "LOADING"
DONE == "DONE"

\* FileReader.readAsDataURL: the file as an embeddable image URI.
readAsDataURL(file) == "data:image/png;base64," \o file

\* The file input is in the page only while there is no signature.  Each
\* chosen file gets a FileReader of its own; a change event with no file
\* does nothing and is left out.
HandleSignatureUpload(max) ==
  /\ Idle(max)
  /\ ~Truthy(signature)
  /\ \E file \in Files :
       readers' = Append(readers, [file |-> file, readyState |-> LOADING, result |-> null])
  /\ Handled
  /\ UNCHANGED << state, localStorage, pending, view, pc, now, writeFailures,
                  lastWrite >>

\* onloadend of one of the readers still loading, after success (result is
\* the data URL) or after a read error (result is null).
OnLoadEnd(max) ==
  /\ Idle(max)
  /\ \E i \in 1..Len(readers), ok \in BOOLEAN :
       /\ readers[i].readyState = LOADING
       /\ LET result == IF ok THEN readAsDataURL(readers[i].file) ELSE null IN
            /\ readers' = [readers EXCEPT ![i] = [@ EXCEPT !.readyState = DONE,
                                                           !.result = result]]
            /\ Commit([currentData EXCEPT !.signature = result], result /= signature)
  /\ Handled
  /\ UNCHANGED << pending, now >>

\* The Remove button, in the page only while there is a signature.
RemoveSignature(max) ==
  /\ Idle(max)
  /\ Truthy(signature)
  /\ Commit([currentData EXCEPT !.signature = null], TRUE)
  /\ Handled
  /\ UNCHANGED << pending, readers, now >>

Next ==
  \/ LoadEffect
  \/ SaveEffect
  \/ RenderPending
  \/ SetPaperColor(MaxEvents)
  \/ SetInvoiceNumber(MaxEvents)
  \/ SetDate(MaxEvents)
  \/ SetFromName(MaxEvents)
  \/ SetFromAddress(MaxEvents)
  \/ SetToName(MaxEvents)
  \/ SetToAddress(MaxEvents)
  \/ SetNote(MaxEvents)
  \/ AddItem(MaxEvents)
  \/ RemoveItem(MaxEvents)
  \/ UpdateItem(MaxEvents)
  \/ HandleSignatureUpload(MaxEvents)
  \/ OnLoadEnd(MaxEvents)
  \/ RemoveSignature(MaxEvents)

Spec == Init /\ [][Next]_vars


(* ----------------------- sessions of one kind ------------------------ *)

\* A first visit: nothing is stored.
InitDefault == Init /\ localStorage = NoItem

\* A session that only edits the item list.
NextItems ==
  \/ LoadEffect
  \/ SaveEffect
  \/ RenderPending
  \/ AddItem(MaxItemEvents)
  \/ RemoveItem(MaxItemEvents)
  \/ UpdateItem(MaxItemEvents)

SpecItems == InitDefault /\ [][NextItems]_vars

\* A session that only uploads and removes signatures.
NextSignature ==
  \/ LoadEffect
  \/ SaveEffect
  \/ RenderPending
  \/ HandleSignatureUpload(MaxSignatureEvents)
  \/ OnLoadEnd(MaxSignatureEvents)
  \/ RemoveSignature(MaxSignatureEvents)

SpecSignature == Init /\ [][NextSignature]_vars

(* ------------------------------ claims ------------------------------- *)

\* What load() returns for the record as it is now.
Loaded == loadFromLocalStorage(localStorage)

\* The mount found a draft in the record.
HadSnapshot == loadFromLocalStorage(preMount) /= None

\* C1: from the default draft, after any sequence of addItem and removeItem
\* calls, the item list has at least one item.
C1_ItemListNeverEmpty == Len(items) >= 1

\* C2, as claimed: after save(draft), load() returns a draft equal to the
\* one saved, whatever the write did.
C2_RoundTrip == lastWrite /= "none" => Loaded = Some(currentData)

\* C2, amended: after a save(draft) whose write succeeded, load() returns a
\* draft equal to the one saved in all ten fields.
C2_RoundTripWhenWritten == lastWrite = "ok" => Loaded = Some(currentData)

\* A save of a draft with no signature and two different items, in this
\* order, has succeeded after an event.
C2_Witness ==
  /\ lastWrite = "ok"
  /\ events >= 1
  /\ signature = null
  /\ Len(items) = 2
  /\ items[1] /= items[2]
  /\ items[2].price = 1050

\* C3: when a valid snapshot was persisted, the draft in memory at the end
\* of the mount equals that snapshot in every field.
C3_MountRestoresSnapshot ==
  (pc = "idle" /\ HadSnapshot) => currentData = loadFromLocalStorage(preMount)[1]

\* C4: between two UI events, as long as no write has failed, the persisted
\* snapshot equals the draft in memory.
C4_PersistedEqualsDraft ==
  (pc = "idle" /\ writeFailures = 0) => localStorage = JSONstringify(currentData)

\* Three events in (an item added, a signature uploaded and read), no write
\* has failed.
C4_Witness ==
  /\ pc = "idle"
  /\ writeFailures = 0
  /\ events = 3
  /\ Truthy(signature)
  /\ Len(items) = 2

\* C5: with no record, or a record that is not JSON, load() returns absent
\* and the draft in memory stays the defaults through the mount.
C5_AbsentOrCorruptGivesDefaults ==
  preMount \in {NoItem, CorruptText} =>
    /\ loadFromLocalStorage(preMount) = None
    /\ currentData = defaultData
    /\ pending \in {<< >>, << defaultData >>, << defaultData, defaultData >>}

\* The mount over a record that is not JSON has finished.
C5_Witness == pc = "idle" /\ preMount = CorruptText /\ events = 0

\* C6: a step whose write fails leaves the record as it was and the page
\* rendered; once a later write succeeds, the record is the whole draft in
\* memory.
C6_FailedSaveSuperseded ==
  [][ /\ writeFailures' > writeFailures =>
           /\ localStorage' = localStorage
           /\ view' = Render(items')
           /\ pc' \in {"mountLoad2", "render", "idle"}
      /\ (pc' = "idle" /\ writeFailures' > 0 /\ lastWrite' = "ok") =>
           loadFromLocalStorage(localStorage') = Some(currentData') ]_vars

\* A write failed after the mount (the record fell behind a draft with two
\* items), and a later write has succeeded.
C6_Witness ==
  /\ pc = "idle"
  /\ writeFailures = 1
  /\ lastWrite = "ok"
  /\ events = 3
  /\ Len(items) = 3

\* C7: when every upload's read has completed with an image, the signature
\* is the image of the upload started last.
C7_LastUploadWins ==
  ( /\ Len(readers) >= 2
    /\ \A i \in 1..Len(readers) : readers[i].readyState = DONE /\ readers[i].result /= null
    /\ Truthy(signature) )
  => signature = readers[Len(readers)].result

\* The sum of quantity x price over the list, from the last item back.
RECURSIVE SumOfLineTotals(_, _)
SumOfLineTotals(its, n) ==
  IF n = 0 THEN 0 ELSE its[n].quantity * its[n].price + SumOfLineTotals(its, n - 1)

\* C8: the subtotal on the page is the sum of quantity x price over the
\* current items, and the total on the page is the subtotal.
C8_TotalsCurrent ==
  /\ view.subtotal = toFixed2(SumOfLineTotals(items, Len(items)))
  /\ view.total = view.subtotal
  /\ Len(view.rows) = Len(items)

\* After item events the page shows 31.50 for a list of two items.
C8_Witness ==
  /\ pc = "idle"
  /\ events >= 2
  /\ Len(items) = 2
  /\ items[1].price = 0
  /\ view.subtotal = "31.50"

\* C9: the ids of the items in the list are pairwise distinct.
C9_ItemIdsDistinct ==
  \A i, j \in 1..Len(items) : i /= j => items[i].id /= items[j].id

\* C10: during the mount, a snapshot that was persisted before it is still
\* the persisted record.
C10_SnapshotKeptDuringMount ==
  (pc /= "idle" /\ HadSnapshot) => localStorage = preMount

=============================================================================
